---- MODULE Spec2Model ----
(***************************************************************************)
(* A model of the request handler extract_pptx of src/extractor.py.        *)
(*                                                                         *)
(* One request is a sequential run of the handler.  The external parser    *)
(* (spire.presentation), the upload client (cloudinary.uploader) and the   *)
(* upload body (File.read) are the environment: what each of their calls   *)
(* does (return, return None, raise) is chosen when the call is made and   *)
(* remembered in env, so that a second request over the same file sees the *)
(* same behaviour.  Scratch files are the elements of fs.                  *)
(***************************************************************************)
EXTENDS Integers, Sequences, FiniteSets, TLC

(* ------------------------------ bounds -------------------------------- *)
MaxSlides == 2
MaxShapes == 2
MaxImages == 2
MaxFaults == 2

(* ------------------------------ strings ------------------------------- *)
\* File names and paragraph texts are sequences of characters, so that
\* endswith, basename, split and strip are computed as Python computes them.
Pptx == <<".", "p", "p", "t", "x">>
Ppt == <<".", "p", "p", "t">>

FileNames ==
  { <<"a">> \o Pptx,
    <<"d", "/", "b">> \o Ppt,
    <<"c", ".", "t", "x", "t">>,
    <<"p", "p", "t", "x">>,
    <<"e">> \o Pptx \o <<".", "x">> }

\* str.endswith(suffix)
EndsWith(s, suffix) ==
  /\ Len(s) >= Len(suffix)
  /\ SubSeq(s, Len(s) - Len(suffix) + 1, Len(s)) = suffix

\* A mutant of ValidExtension: the suffixes are looked for anywhere in the
\* name ('.ppt' in name) instead of at its end.
ValidExtension_contains(name) ==
  \E k \in 1..Len(name) :
    /\ k + Len(Ppt) - 1 <= Len(name)
    /\ SubSeq(name, k, k + Len(Ppt) - 1) = Ppt

\* File.filename.endswith(('.pptx', '.ppt'))
ValidExtension(name) == EndsWith(name, Pptx) \/ EndsWith(name, Ppt)

\* Index of the first occurrence of character c in s at or after i, 0 if none.
RECURSIVE FindFrom(_, _, _)
FindFrom(s, c, i) ==
  IF i > Len(s) THEN 0
  ELSE IF s[i] = c THEN i
  ELSE FindFrom(s, c, i + 1)

\* Index of the last occurrence of character c in s at or before i, 0 if none.
RECURSIVE FindBack(_, _, _)
FindBack(s, c, i) ==
  IF i < 1 THEN 0
  ELSE IF s[i] = c THEN i
  ELSE FindBack(s, c, i - 1)

\* os.path.basename(name)
Basename(name) == SubSeq(name, FindBack(name, "/", Len(name)) + 1, Len(name))

\* s.split('.')[0]
BeforeFirstDot(s) ==
  LET i == FindFrom(s, ".", 1)
  IN  IF i = 0 THEN s ELSE SubSeq(s, 1, i - 1)

\* os.path.basename(File.filename).split('.')[0]
Stem(name) == BeforeFirstDot(Basename(name))

\* str.strip() (the only whitespace character of the model is the blank)
RECURSIVE LStrip(_)
LStrip(s) == IF s # <<>> /\ Head(s) = " " THEN LStrip(Tail(s)) ELSE s
RECURSIVE RStrip(_)
RStrip(s) ==
  IF s # <<>> /\ s[Len(s)] = " " THEN RStrip(SubSeq(s, 1, Len(s) - 1)) ELSE s
Strip(s) == RStrip(LStrip(s))

(* ----------------------------- documents ------------------------------ *)
\* What LoadFromFile builds: ppt.Slides, each slide an ordered list of
\* shapes, and ppt.Images, the document's image collection (its length).
\* A shape is a text box (IAutoShape with a TextFrame), a chart (IChart) or
\* a picture whose embedded image payload is absent.
Shapes == {"textbox", "chart", "picture"}

\* shape.TextFrame.Paragraphs, each paragraph's Text
Paragraphs(shape) ==
  IF shape = "textbox" THEN << <<"H", "i">>, <<" ">>, <<" ", "x", " ">> >>
  ELSE <<>>

\* isinstance(shape, IAutoShape) and shape.TextFrame is not None
HasTextFrame(shape) == shape = "textbox"

\* A mutant of IsChart: pictures are sent down the chart path too.
IsChart_orPicture(shape) == shape \in {"chart", "picture"}

\* isinstance(shape, IChart)
IsChart(shape) == shape = "chart"

RECURSIVE SeqsUpTo(_, _)
SeqsUpTo(S, n) ==
  IF n = 0 THEN {<<>>}
  ELSE LET shorter == SeqsUpTo(S, n - 1)
       IN  shorter \cup {Append(s, x) : s \in shorter, x \in S}

Docs ==
  [Slides : SeqsUpTo(SeqsUpTo(Shapes, MaxShapes), MaxSlides),
   Images : 0..MaxImages]

NoDoc == [Slides |-> <<>>, Images |-> 0]

(* ---------------------------- environment ----------------------------- *)
\* The calls of the handler into its environment, one site per call.
Sites ==
  {<<"read", 0, 0>>, <<"write", 0, 0>>, <<"load", 0, 0>>, <<"dispose", 0, 0>>}
    \cup {<<"text", s, 0>> : s \in 0..(MaxSlides - 1)}
    \cup {<<"image", n, 0>> : n \in 0..(MaxImages - 1)}
    \cup {<<"chart", s, k>> : s \in 0..(MaxSlides - 1), k \in 0..(MaxShapes - 1)}

\* What a call can do.  "ok": every step returns; "none": SaveAsImage
\* returns None; "raise", "render", "save", "upload": that step raises.
CallOutcomes == {"ok", "raise"}
ImageOutcomes == {"ok", "save", "upload"}
ChartOutcomes == {"ok", "none", "render", "save", "upload"}
Undecided == "?"

IsFault(o) == o \in {"raise", "render", "save", "upload"}

\* str(e) of the exception a site raises.
Message(site, o) == <<site[1], o, "failed">>

\* What cloudinary.uploader.upload returns for the call made at a site.
UploadResult(site) ==
  [secure_url |-> <<"https", site>>, public_id |-> <<"id", site>>]

(* ------------------------------- state -------------------------------- *)
VARIABLES
  pc,                \* position in extract_pptx
  filename,          \* File.filename
  extractText,       \* parameter, overwritten at line 51
  extractImage,      \* parameter, overwritten at line 52
  extractAll,        \* parameter
  ppt,               \* "None" or "Presentation"
  doc,               \* what ppt holds once LoadFromFile returned
  temp_pptx_path,    \* NoFile (None) or the document scratch file
  extracted_images,  \* list of {index, url, public_id} / {index, error}
  i,                 \* index of the image loop (line 78)
  slide_index,       \* index of the slide loop (line 112)
  shape_index,       \* index of the chart loop (line 128)
  slide_content,     \* the slide's record under construction
  temp_image_file,   \* NoFile (None) or the current image scratch file
  presentation_data, \* {"slides": [...], "all_images"?: [...]}
  exc,               \* the exception in flight, NoExc if none
  response,          \* what the request answers, NoResponse while running
  fs,                \* scratch files that exist on disk
  uploads,           \* calls of cloudinary.uploader.upload, in order
  calls,             \* which of File.read, LoadFromFile, Dispose were called
  env,               \* the environment's behaviour per site, once decided
  round,             \* 1: the request; 2: the same upload sent again (SpecPair)
  first              \* outcome of round 1 (SpecPair)

params == <<filename, extractText, extractImage, extractAll>>
loops == <<extracted_images, i, slide_index, shape_index, slide_content,
           temp_image_file, presentation_data>>
pair == <<round, first>>
vars == <<pc, params, ppt, doc, temp_pptx_path, loops, exc, response, fs,
          uploads, calls, env, pair>>

NoFile == <<0, "none", 0, 0>>
NoExc == <<"none", "", "">>
NoResponse == [status |-> 0]
NoOutcome == [response |-> NoResponse, uploads |-> <<>>, doc |-> NoDoc]

\* tempfile.NamedTemporaryFile(delete=False): a fresh name per creation.
DocFile == <<round, "pptx", 0, 0>>
ImageFile(n) == <<round, "image", n, 0>>
ChartFile(s, k) == <<round, "chart", s, k>>

\* os.path.exists(path) and os.remove(path) of the two finally blocks.
RemoveIfExists(path, files) ==
  IF path # NoFile /\ path \in files THEN files \ {path} ELSE files

NumFaults == Cardinality({s \in Sites : IsFault(env[s])})

\* The call at site does o: chosen now, or as it was chosen before.
Decide(site, o) ==
  \/ /\ env[site] = Undecided
     /\ IsFault(o) => NumFaults < MaxFaults
     /\ env' = [env EXCEPT ![site] = o]
  \/ /\ env[site] = o
     /\ UNCHANGED env

(* ----------------------------- responses ------------------------------ *)
HTTPException(status_code, detail) ==
  [status |-> status_code, detail |-> detail]

JSONResponse(content) == [status |-> 200, content |-> content]

\* An exception that leaves the handler (raised inside the finally block):
\* the handler's own response is lost, the server answers 500 without it.
Unhandled(e) == [status |-> 500, exception |-> e]

InvalidFileType ==
  HTTPException(400, <<"Invalid file type. Only .pptx or .ppt files are accepted.", NoExc>>)

NoOptionSelected ==
  HTTPException(400, <<"At least one extraction option (extractText, extractImage, or extractAll) must be true.", NoExc>>)

\* Mutants of ProcessingFailure: the wrong status code; the message left out.
ProcessingFailure_badRequest(e) ==
  HTTPException(400, <<"An error occurred during PPTX processing: ", e>>)
ProcessingFailure_noMessage(e) ==
  HTTPException(500, <<"An error occurred during PPTX processing: ", NoExc>>)

\* lines 191-194
ProcessingFailure(e) ==
  HTTPException(500, <<"An error occurred during PPTX processing: ", e>>)

(* -------------------------------- Init -------------------------------- *)
Init ==
  /\ pc = "check_extension"
  /\ filename \in FileNames
  /\ extractText \in BOOLEAN
  /\ extractImage \in BOOLEAN
  /\ extractAll \in BOOLEAN
  /\ ppt = "None"
  /\ doc = NoDoc
  /\ temp_pptx_path = NoFile
  /\ extracted_images = <<>>
  /\ i = 0
  /\ slide_index = 0
  /\ shape_index = 0
  /\ slide_content = [slide |-> 0]
  /\ temp_image_file = NoFile
  /\ presentation_data = [slides |-> <<>>]
  /\ exc = NoExc
  /\ response = NoResponse
  /\ fs = {}
  /\ uploads = <<>>
  /\ calls = {}
  /\ env = [s \in Sites |-> Undecided]
  /\ round = 1
  /\ first = NoOutcome

(* ----------------------------- validation ----------------------------- *)
\* lines 44-48
CheckExtension ==
  /\ pc = "check_extension"
  /\ IF ~ValidExtension(filename)
       THEN /\ response' = InvalidFileType
            /\ pc' = "done"
       ELSE /\ pc' = "extract_all"
            /\ UNCHANGED response
  /\ UNCHANGED <<params, ppt, doc, temp_pptx_path, loops, exc, fs, uploads,
                 calls, env, pair>>

\* A mutant of ForceAll: extractAll is not looked at.
ForceAll_ignored(flag, all) == flag

\* lines 50-52: the value of extractText / extractImage after "if extractAll"
ForceAll(flag, all) == IF all THEN TRUE ELSE flag

\* lines 50-52
ApplyExtractAll ==
  /\ pc = "extract_all"
  /\ extractText' = ForceAll(extractText, extractAll)
  /\ extractImage' = ForceAll(extractImage, extractAll)
  /\ pc' = "check_options"
  /\ UNCHANGED <<filename, extractAll, ppt, doc, temp_pptx_path, loops, exc,
                 response, fs, uploads, calls, env, pair>>

\* A mutant of NothingSelected: the second "not" is missing.
NothingSelected_onlyText(text, image) == ~text /\ image

\* line 54: not extractText and not extractImage
NothingSelected(text, image) == ~text /\ ~image

\* lines 54-58
CheckOptions ==
  /\ pc = "check_options"
  /\ IF NothingSelected(extractText, extractImage)
       THEN /\ response' = NoOptionSelected
            /\ pc' = "done"
       ELSE /\ pc' = "construct"
            /\ UNCHANGED response
  /\ UNCHANGED <<params, ppt, doc, temp_pptx_path, loops, exc, fs, uploads,
                 calls, env, pair>>

(* ------------------------------ loading ------------------------------- *)
\* lines 60-65: ppt = Presentation()
Construct ==
  /\ pc = "construct"
  /\ ppt' = "Presentation"
  /\ pc' = "tempfile"
  /\ UNCHANGED <<params, doc, temp_pptx_path, loops, exc, response, fs,
                 uploads, calls, env, pair>>

\* line 67: the scratch file exists from here on; its name is not yet kept
CreateTempFile ==
  /\ pc = "tempfile"
  /\ fs' = fs \cup {DocFile}
  /\ pc' = "read"
  /\ UNCHANGED <<params, ppt, doc, temp_pptx_path, loops, exc, response,
                 uploads, calls, env, pair>>

\* line 68: contents = await File.read()
ReadUpload ==
  /\ pc = "read"
  /\ calls' = calls \cup {"read"}
  /\ \E o \in CallOutcomes :
       /\ Decide(<<"read", 0, 0>>, o)
       /\ IF o = "raise"
            THEN /\ exc' = Message(<<"read", 0, 0>>, o)
                 /\ pc' = "except"
            ELSE /\ pc' = "write"
                 /\ UNCHANGED exc
  /\ UNCHANGED <<params, ppt, doc, temp_pptx_path, loops, response, fs,
                 uploads, pair>>

\* lines 69-70: temp_file.write(contents); temp_pptx_path = temp_file.name
WriteTempFile ==
  /\ pc = "write"
  /\ \E o \in CallOutcomes :
       /\ Decide(<<"write", 0, 0>>, o)
       /\ IF o = "raise"
            THEN /\ exc' = Message(<<"write", 0, 0>>, o)
                 /\ pc' = "except"
                 /\ UNCHANGED temp_pptx_path
            ELSE /\ temp_pptx_path' = DocFile
                 /\ pc' = "load"
                 /\ UNCHANGED exc
  /\ UNCHANGED <<params, ppt, doc, loops, response, fs, uploads, calls, pair>>

\* line 72: ppt.LoadFromFile(temp_pptx_path)
LoadFromFile ==
  /\ pc = "load"
  /\ calls' = calls \cup {"load"}
  /\ \E o \in CallOutcomes :
       /\ Decide(<<"load", 0, 0>>, o)
       /\ IF o = "raise"
            THEN /\ exc' = Message(<<"load", 0, 0>>, o)
                 /\ pc' = "except"
                 /\ UNCHANGED doc
            ELSE /\ \E d \in (IF round = 1 THEN Docs ELSE {first.doc}) : doc' = d
                 /\ pc' = "images"
                 /\ UNCHANGED exc
  /\ UNCHANGED <<params, ppt, temp_pptx_path, loops, response, fs, uploads,
                 pair>>

(* ------------------------- the image collection ----------------------- *)
\* A mutant of CaughtPerItem: the per-item handler names the parser's
\* exception class only, so an upload's exception passes through it.
CaughtPerItem_notUpload(o) == o # "upload"

\* lines 101 and 152: "except Exception" catches whatever an item's step raises
CaughtPerItem(o) == TRUE

\* line 90: folder of an image upload
ImagesFolder(name) == <<"pptx_extractions/", Stem(name), "/images">>

\* line 143: folder of a chart upload
ChartsFolder(name, slide) ==
  <<"pptx_extractions/", Stem(name), "/slide_", slide, "/charts">>

\* lines 93-97
ImageOk(n, result) ==
  [index |-> n, url |-> result.secure_url, public_id |-> result.public_id]

\* lines 103-106
ImageError(n, e) ==
  [index |-> n, error |-> <<"Failed to extract/upload image ", n, ": ", e>>]

\* lines 78-106: one pass of the try block of the image loop
ImageTry ==
  /\ pc = "images"
  /\ extractImage
  /\ i < doc.Images
  /\ temp_image_file' = ImageFile(i)
  /\ fs' = fs \cup {ImageFile(i)}
  /\ \E o \in ImageOutcomes :
       LET site == <<"image", i, 0>> IN
       /\ Decide(site, o)
       /\ uploads' = IF o \in {"ok", "upload"}
                       THEN Append(uploads, [folder |-> ImagesFolder(filename),
                                             ok |-> o = "ok"])
                       ELSE uploads
       /\ IF o = "ok"
            THEN /\ extracted_images' =
                      Append(extracted_images, ImageOk(i, UploadResult(site)))
                 /\ UNCHANGED exc
            ELSE IF CaughtPerItem(o)
            THEN /\ extracted_images' =
                      Append(extracted_images, ImageError(i, Message(site, o)))
                 /\ UNCHANGED exc
            ELSE /\ exc' = Message(site, o)
                 /\ UNCHANGED extracted_images
  /\ pc' = "image_finally"
  /\ UNCHANGED <<params, ppt, doc, temp_pptx_path, i, slide_index, shape_index,
                 slide_content, presentation_data, response, calls, pair>>

\* lines 107-109, then the next pass
ImageFinally ==
  /\ pc = "image_finally"
  /\ fs' = RemoveIfExists(temp_image_file, fs)
  /\ IF exc # NoExc
       THEN /\ pc' = "except"
            /\ UNCHANGED i
       ELSE /\ i' = i + 1
            /\ pc' = "images"
  /\ UNCHANGED <<params, ppt, doc, temp_pptx_path, extracted_images,
                 slide_index, shape_index, slide_content, temp_image_file,
                 presentation_data, exc, response, uploads, calls, env, pair>>

\* lines 76-78: the loop is skipped or exhausted
ImagesDone ==
  /\ pc = "images"
  /\ ~(extractImage /\ i < doc.Images)
  /\ pc' = "slides"
  /\ UNCHANGED <<params, ppt, doc, temp_pptx_path, loops, exc, response, fs,
                 uploads, calls, env, pair>>

(* ------------------------------- slides ------------------------------- *)
\* lines 118-121: the paragraphs one shape contributes
ShapeText(shape) ==
  IF HasTextFrame(shape)
    THEN SelectSeq(Paragraphs(shape), LAMBDA p : Strip(p) # <<>>)
    ELSE <<>>

\* lines 117-121
RECURSIVE SlideText(_)
SlideText(shapes) ==
  IF shapes = <<>> THEN <<>>
  ELSE ShapeText(Head(shapes)) \o SlideText(Tail(shapes))

\* A mutant of SlideNumber: the loop index is used as it is.
SlideNumber_zeroBased(index) == index

\* line 113: slide_index + 1
SlideNumber(index) == index + 1

\* lines 145-149
ChartOk(result) ==
  [type |-> "chart", url |-> result.secure_url, public_id |-> result.public_id]

\* lines 156-159
ChartError(count, e) ==
  [type |-> "chart",
   error |-> <<"Failed to extract/upload chart for shape ", count, ": ", e>>]

\* lines 168-180: the entry a slide gets for one element of extracted_images
SlideImageEntry(img) ==
  IF "error" \notin DOMAIN img
    THEN [type |-> "image", url |-> img.url, public_id |-> img.public_id,
          image_index |-> img.index]
    ELSE [type |-> "image", error |-> img.error, image_index |-> img.index]

\* A mutant of WithCollection: the collection's entries are put first.
WithCollection_first(images, extracted) ==
  [n \in 1..Len(extracted) |-> SlideImageEntry(extracted[n])] \o images

\* lines 167-180: slide_content["images"] after the loop over extracted_images
WithCollection(images, extracted) ==
  images \o [n \in 1..Len(extracted) |-> SlideImageEntry(extracted[n])]

\* lines 112-124 (and line 182 when no image is asked for): a slide begins
SlideBegin ==
  /\ pc = "slides"
  /\ slide_index < Len(doc.Slides)
  /\ LET shapes == doc.Slides[slide_index + 1]
         site == <<"text", slide_index, 0>>
         number == [slide |-> SlideNumber(slide_index)]
         content == IF extractText
                      THEN number @@ [text |-> SlideText(shapes)]
                      ELSE number
     IN  \E o \in (IF extractText THEN CallOutcomes ELSE {"ok"}) :
           /\ IF extractText THEN Decide(site, o) ELSE UNCHANGED env
           /\ IF o = "raise"
                THEN /\ exc' = Message(site, o)
                     /\ pc' = "except"
                     /\ UNCHANGED <<slide_content, shape_index, slide_index,
                                    presentation_data>>
                ELSE IF extractImage
                THEN /\ slide_content' = content @@ [images |-> <<>>]
                     /\ shape_index' = 0
                     /\ pc' = "charts"
                     /\ UNCHANGED <<exc, slide_index, presentation_data>>
                ELSE /\ presentation_data' =
                          [presentation_data EXCEPT
                             !.slides = Append(@, content)]
                     /\ slide_content' = content
                     /\ slide_index' = slide_index + 1
                     /\ pc' = "slides"
                     /\ UNCHANGED <<exc, shape_index>>
  /\ UNCHANGED <<params, ppt, doc, temp_pptx_path, extracted_images, i,
                 temp_image_file, response, fs, uploads, calls, pair>>

\* lines 128-159: one pass of the try block of the shape loop
ChartTry ==
  /\ pc = "charts"
  /\ shape_index < Len(doc.Slides[slide_index + 1])
  /\ LET shape == doc.Slides[slide_index + 1][shape_index + 1]
         site == <<"chart", slide_index, shape_index>>
         image_count_on_slide == shape_index + 1
     IN  IF ~IsChart(shape)
           THEN /\ temp_image_file' = NoFile
                /\ UNCHANGED <<slide_content, exc, fs, uploads, env>>
           ELSE \E o \in ChartOutcomes :
                  /\ Decide(site, o)
                  /\ IF o \in {"none", "render"}
                       THEN /\ temp_image_file' = NoFile
                            /\ UNCHANGED fs
                       ELSE /\ temp_image_file' = ChartFile(slide_index, shape_index)
                            /\ fs' = fs \cup {ChartFile(slide_index, shape_index)}
                  /\ uploads' =
                       IF o \in {"ok", "upload"}
                         THEN Append(uploads,
                                [folder |-> ChartsFolder(filename, slide_index + 1),
                                 ok |-> o = "ok"])
                         ELSE uploads
                  /\ IF o = "none"
                       THEN UNCHANGED <<slide_content, exc>>
                       ELSE IF o = "ok"
                       THEN /\ slide_content' =
                                 [slide_content EXCEPT
                                    !.images = Append(@, ChartOk(UploadResult(site)))]
                            /\ UNCHANGED exc
                       ELSE IF CaughtPerItem(o)
                       THEN /\ slide_content' =
                                 [slide_content EXCEPT
                                    !.images = Append(@,
                                       ChartError(image_count_on_slide,
                                                  Message(site, o)))]
                            /\ UNCHANGED exc
                       ELSE /\ exc' = Message(site, o)
                            /\ UNCHANGED slide_content
  /\ pc' = "chart_finally"
  /\ UNCHANGED <<params, ppt, doc, temp_pptx_path, extracted_images, i,
                 slide_index, shape_index, presentation_data, response, calls,
                 pair>>

\* lines 160-163, then the next pass
ChartFinally ==
  /\ pc = "chart_finally"
  /\ fs' = RemoveIfExists(temp_image_file, fs)
  /\ IF exc # NoExc
       THEN /\ pc' = "except"
            /\ UNCHANGED shape_index
       ELSE /\ shape_index' = shape_index + 1
            /\ pc' = "charts"
  /\ UNCHANGED <<params, ppt, doc, temp_pptx_path, extracted_images, i,
                 slide_index, slide_content, temp_image_file,
                 presentation_data, exc, response, uploads, calls, env, pair>>

\* lines 165-182: the shapes are exhausted; the slide is appended
SlideEnd ==
  /\ pc = "charts"
  /\ shape_index >= Len(doc.Slides[slide_index + 1])
  /\ LET content == [slide_content EXCEPT
                       !.images = WithCollection(@, extracted_images)]
     IN  /\ slide_content' = content
         /\ presentation_data' =
              [presentation_data EXCEPT !.slides = Append(@, content)]
  /\ slide_index' = slide_index + 1
  /\ pc' = "slides"
  /\ UNCHANGED <<params, ppt, doc, temp_pptx_path, extracted_images, i,
                 shape_index, temp_image_file, exc, response, fs, uploads,
                 calls, env, pair>>

(* ------------------------------ the end ------------------------------- *)
\* lines 184-188
Return ==
  /\ pc = "slides"
  /\ slide_index >= Len(doc.Slides)
  /\ LET data == IF extractImage /\ extracted_images # <<>>
                   THEN presentation_data @@ [all_images |-> extracted_images]
                   ELSE presentation_data
     IN  /\ presentation_data' = data
         /\ response' = JSONResponse(data)
  /\ pc' = "finally"
  /\ UNCHANGED <<params, ppt, doc, temp_pptx_path, extracted_images, i,
                 slide_index, shape_index, slide_content, temp_image_file,
                 exc, fs, uploads, calls, env, pair>>

\* lines 190-194
Except ==
  /\ pc = "except"
  /\ response' = ProcessingFailure(exc)
  /\ pc' = "finally"
  /\ UNCHANGED <<params, ppt, doc, temp_pptx_path, loops, exc, fs, uploads,
                 calls, env, pair>>

\* lines 195-199: an exception of Dispose leaves the block before line 198
Finally ==
  /\ pc = "finally"
  /\ IF ppt # "None"
       THEN /\ calls' = calls \cup {"dispose"}
            /\ \E o \in CallOutcomes :
                 /\ Decide(<<"dispose", 0, 0>>, o)
                 /\ IF o = "raise"
                      THEN /\ response' = Unhandled(Message(<<"dispose", 0, 0>>, o))
                           /\ UNCHANGED fs
                      ELSE /\ fs' = RemoveIfExists(temp_pptx_path, fs)
                           /\ UNCHANGED response
       ELSE /\ fs' = RemoveIfExists(temp_pptx_path, fs)
            /\ UNCHANGED <<response, calls, env>>
  /\ pc' = "done"
  /\ UNCHANGED <<params, ppt, doc, temp_pptx_path, loops, exc, uploads, pair>>

Next ==
  \/ CheckExtension
  \/ ApplyExtractAll
  \/ CheckOptions
  \/ Construct
  \/ CreateTempFile
  \/ ReadUpload
  \/ WriteTempFile
  \/ LoadFromFile
  \/ ImageTry
  \/ ImageFinally
  \/ ImagesDone
  \/ SlideBegin
  \/ ChartTry
  \/ ChartFinally
  \/ SlideEnd
  \/ Return
  \/ Except
  \/ Finally

Spec == Init /\ [][Next]_vars

(* --------------------- the same upload, sent twice -------------------- *)
\* A request with extractText=true, extractImage=true, extractAll=false has
\* completed; the same file is sent again with extractAll=true and any
\* extractText and extractImage.  The file's content and the environment's
\* behaviour are those of the first request; the scratch files it left
\* behind are still on disk.
Replay ==
  /\ pc = "done"
  /\ round = 1
  /\ extractText /\ extractImage /\ ~extractAll
  /\ first' = [response |-> response, uploads |-> uploads, doc |-> doc]
  /\ round' = 2
  /\ pc' = "check_extension"
  /\ extractText' \in BOOLEAN
  /\ extractImage' \in BOOLEAN
  /\ extractAll' = TRUE
  /\ ppt' = "None"
  /\ doc' = NoDoc
  /\ temp_pptx_path' = NoFile
  /\ extracted_images' = <<>>
  /\ i' = 0
  /\ slide_index' = 0
  /\ shape_index' = 0
  /\ slide_content' = [slide |-> 0]
  /\ temp_image_file' = NoFile
  /\ presentation_data' = [slides |-> <<>>]
  /\ exc' = NoExc
  /\ response' = NoResponse
  /\ uploads' = <<>>
  /\ calls' = {}
  /\ UNCHANGED <<filename, fs, env>>

NextPair == Next \/ Replay

SpecPair == Init /\ [][NextPair]_vars

(* ------------------------------ claims -------------------------------- *)
Done == pc = "done"

Raised(site) == env[site] = "raise"

\* The slides of the loaded document, 0-based as the handler counts them.
SlideIndexes == 0..(Len(doc.Slides) - 1)
ShapeIndexes(s) == 0..(Len(doc.Slides[s + 1]) - 1)

\* The shapes of slide s that are charts, in traversal order.
ChartShapes(s) ==
  SelectSeq([n \in 1..Len(doc.Slides[s + 1]) |-> n - 1],
            LAMBDA k : doc.Slides[s + 1][k + 1] = "chart")

\* Those whose SaveAsImage raised or returned an image.
RenderedCharts(s) ==
  SelectSeq(ChartShapes(s), LAMBDA k : env[<<"chart", s, k>>] # "none")

\* The entries slide s has in a 200 response.
Entries(s) == response.content.slides[s + 1].images

IsUrlEntry(e, site) ==
  /\ DOMAIN e \cap {"url", "error"} = {"url"}
  /\ e.url = UploadResult(site).secure_url

IsErrorEntry(e) == DOMAIN e \cap {"url", "error"} = {"error"}

\* C1: when the request completes, no scratch file created by that request
\* still exists, whatever its outcome and whichever step failed.
C1_NoScratchFileLeft == Done => \A f \in fs : f[1] # round

\* C2: with image extraction in effect, a failure of the render, save or
\* upload step of a chart or of an image of the collection does not abort
\* the request: unless a step outside the per-item handlers fails (the text
\* of a slide, Dispose) the response is 200, and in a 200 response every
\* chart that rendered and every image of the collection has its entry at
\* its position: an error entry if one of its steps failed, the URL entry
\* of its own upload if they all succeeded.
C2_ItemFailureIsolated ==
  (Done /\ extractImage /\ env[<<"load", 0, 0>>] = "ok") =>
    /\ ( /\ ~Raised(<<"dispose", 0, 0>>)
         /\ \A s \in 0..(MaxSlides - 1) : ~Raised(<<"text", s, 0>>) )
       => response.status = 200
    /\ response.status = 200 =>
         \A s \in SlideIndexes :
           /\ Len(Entries(s)) = Len(RenderedCharts(s)) + doc.Images
           /\ \A j \in 1..Len(RenderedCharts(s)) :
                LET site == <<"chart", s, RenderedCharts(s)[j]>>
                    e == Entries(s)[j]
                IN  /\ e.type = "chart"
                    /\ IsFault(env[site]) => IsErrorEntry(e)
                    /\ env[site] = "ok" => IsUrlEntry(e, site)
           /\ \A n \in 0..(doc.Images - 1) :
                LET site == <<"image", n, 0>>
                    e == Entries(s)[Len(RenderedCharts(s)) + n + 1]
                IN  /\ e.type = "image"
                    /\ IsFault(env[site]) => IsErrorEntry(e)
                    /\ env[site] = "ok" => IsUrlEntry(e, site)

\* A 200 response in which the first chart of slide 1 and the first image of
\* the collection failed, and the chart after it, the chart of slide 2 and
\* the second image have their URLs.
C2_Witness ==
  /\ Done
  /\ response.status = 200
  /\ Len(doc.Slides) = 2
  /\ doc.Slides[1] = <<"chart", "chart">>
  /\ doc.Slides[2] = <<"chart">>
  /\ doc.Images = 2
  /\ env[<<"chart", 0, 0>>] = "upload"
  /\ env[<<"chart", 0, 1>>] = "ok"
  /\ env[<<"chart", 1, 0>>] = "ok"
  /\ env[<<"image", 0, 0>>] = "save"
  /\ env[<<"image", 1, 0>>] = "ok"

\* C3: a file whose name does not end in '.pptx' or '.ppt' is answered 400,
\* invalid file type, for every combination of the three flags.
C3_BadExtensionRejected ==
  (Done /\ ~EndsWith(filename, Pptx) /\ ~EndsWith(filename, Ppt))
    => response = InvalidFileType

\* A name that only contains '.pptx' was rejected although extractAll was set.
C3_Witness ==
  /\ Done
  /\ filename = <<"e">> \o Pptx \o <<".", "x">>
  /\ extractAll /\ ~extractText /\ extractImage
  /\ response.status = 400

\* C4: a request with extractAll=true and any extractText and extractImage
\* has the outcome (status, body, sequence of upload calls) of the request
\* with extractText=true and extractImage=true on the same file, the same
\* document and the same behaviour of parser and uploader.
C4_ExtractAllSameOutcome ==
  (Done /\ round = 2) =>
    /\ response.status = first.response.status
    /\ response = first.response
    /\ uploads = first.uploads

\* The second request, sent with extractAll, completed with uploads and a
\* 200 body.
C4_Witness ==
  /\ Done
  /\ round = 2
  /\ extractAll
  /\ response.status = 200
  /\ Len(uploads) >= 2
  /\ Len(response.content.slides) = 2

\* C5: with extractText, extractImage and extractAll all false the answer is
\* 400, for every file name.
C5_NoFlagRejected ==
  (Done /\ ~extractText /\ ~extractImage /\ ~extractAll)
    => response.status = 400

\* A well-named file with no flag set was answered "no extraction option".
C5_Witness ==
  /\ Done
  /\ EndsWith(filename, Pptx)
  /\ ~extractText /\ ~extractImage /\ ~extractAll
  /\ response = NoOptionSelected

\* C6: a 200 response has one entry per slide of the loaded document, the
\* n-th numbered n and (when text is asked for) carrying the text of the
\* document's n-th slide, slides without text or images included.
C6_OneEntryPerSlide ==
  (Done /\ response.status = 200) =>
    /\ Len(response.content.slides) = Len(doc.Slides)
    /\ \A n \in 1..Len(doc.Slides) :
         /\ response.content.slides[n].slide = n
         /\ extractText =>
              response.content.slides[n].text = SlideText(doc.Slides[n])

\* Two slides, the first empty and the second a lone picture, no image in
\* the collection: both are in the response.
C6_Witness ==
  /\ Done
  /\ response.status = 200
  /\ extractText /\ extractImage
  /\ doc.Slides = << <<>>, <<"picture">> >>
  /\ doc.Images = 0
  /\ Len(response.content.slides) = 2

\* C7: with image extraction in effect a picture shape whose image payload
\* is absent is never rendered, saved or uploaded (so nothing is raised for
\* it), gets no scratch file, and adds no entry to any slide: the "chart" entries of a
\* slide are as many as its charts that rendered, every other entry is an
\* image of the collection, and the upload calls are those of charts and
\* collection images.
C7_PictureContributesNothing ==
  /\ \A s \in SlideIndexes : \A k \in ShapeIndexes(s) :
       doc.Slides[s + 1][k + 1] = "picture" =>
         /\ env[<<"chart", s, k>>] = Undecided
         /\ ChartFile(s, k) \notin fs
  /\ (Done /\ extractImage /\ response.status = 200) =>
       /\ \A s \in SlideIndexes :
            /\ Len(SelectSeq(Entries(s), LAMBDA e : e.type = "chart"))
                 = Len(RenderedCharts(s))
            /\ Len(SelectSeq(Entries(s), LAMBDA e : e.type # "chart"))
                 = doc.Images
       /\ Len(uploads) =
            Cardinality({site \in Sites :
                           /\ site[1] \in {"chart", "image"}
                           /\ env[site] \in {"ok", "upload"}})

\* Slide 1 holds a chart, slide 2 only a picture: slide 2 has no entry and
\* the one upload is the chart's.
C7_Witness ==
  /\ Done
  /\ extractImage
  /\ response.status = 200
  /\ doc.Slides = << <<"textbox", "chart">>, <<"picture">> >>
  /\ doc.Images = 0
  /\ Entries(1) = <<>>
  /\ Len(Entries(0)) = 1
  /\ Len(uploads) = 1

\* C8: a 400 answer was given before any processing: no scratch file of the
\* request exists, the upload body was not read, the parser was neither
\* constructed nor asked to load, nothing was uploaded.
C8_RejectedBeforeProcessing ==
  (Done /\ response.status = 400) =>
    /\ \A f \in fs : f[1] # round
    /\ temp_pptx_path = NoFile
    /\ calls = {}
    /\ ppt = "None"
    /\ doc = NoDoc
    /\ uploads = <<>>
    /\ \A site \in Sites : env[site] = Undecided

\* A well-named file sent with extractImage=false and no other flag.
C8_Witness ==
  /\ Done
  /\ response = NoOptionSelected
  /\ filename = <<"d", "/", "b">> \o Ppt
  /\ ppt = "None"

ImagesOrdered(everyChart) ==
  (Done /\ extractImage /\ response.status = 200) =>
    \A s \in SlideIndexes :
      LET charts == IF everyChart THEN ChartShapes(s) ELSE RenderedCharts(s)
      IN  /\ Len(Entries(s)) = Len(charts) + doc.Images
          /\ \A j \in 1..Len(charts) :
               LET e == Entries(s)[j]
                   k == charts[j]
               IN  /\ e.type = "chart"
                   /\ "url" \in DOMAIN e =>
                        e.url = UploadResult(<<"chart", s, k>>).secure_url
                   /\ "error" \in DOMAIN e => e.error[2] = k + 1
          /\ \A n \in 1..doc.Images :
               LET e == Entries(s)[Len(charts) + n]
               IN  /\ e.type = "image"
                   /\ e.image_index = n - 1
          /\ \A t \in SlideIndexes :
               [n \in 1..doc.Images |->
                  Entries(s)[Len(Entries(s)) - doc.Images + n].image_index]
                 = [n \in 1..doc.Images |->
                      Entries(t)[Len(Entries(t)) - doc.Images + n].image_index]

\* C10 as stated: one entry per chart shape of the slide (the render of
\* every chart shape is attempted), in traversal order, then one entry per
\* image of the collection in increasing image_index, the same on every
\* slide.
C10_EveryChartHasEntry == ImagesOrdered(TRUE)

\* C10 as amended: one entry per chart shape whose SaveAsImage raised or
\* returned an image (a chart whose SaveAsImage returned None has none), in
\* traversal order, then one entry per image of the collection in
\* increasing image_index, the same on every slide.
C10_RenderedChartsThenImages == ImagesOrdered(FALSE)

\* A slide whose first chart rendered to None and whose second was
\* uploaded, with two images in the collection: three entries.
C10_Witness ==
  /\ Done
  /\ extractImage
  /\ response.status = 200
  /\ Len(doc.Slides) = 2
  /\ doc.Slides[1] = <<"chart", "chart">>
  /\ env[<<"chart", 0, 0>>] = "none"
  /\ env[<<"chart", 0, 1>>] = "ok"
  /\ doc.Images = 2
  /\ Len(Entries(0)) = 3

====
